---- MODULE Spec2Model ----
(***************************************************************************)
(* Contacts-management backend (FastAPI + SQLAlchemy): registration with   *)
(* e-mail verification, bearer-token login, and per-user CRUD over         *)
(* contacts.  The record store is modelled as two tables kept in primary-  *)
(* key order; every db.commit() of the code is one atomic step.            *)
(***************************************************************************)
EXTENDS Integers, Sequences, FiniteSets, TLC

(* ------------------------------ bounds --------------------------------- *)
MaxUsers == 2          \* rows in the users table
MaxReq == 2            \* create_user requests in flight at once
MaxContactId == 2      \* largest contact id the store hands out
MaxTime == 3           \* clock ticks (seconds) the model follows
MaxIssued == 2         \* access tokens issued by login
MaxPage == 2           \* largest skip / limit a listing request uses
MaxPending == 1        \* update / delete requests between check and write

(* ------------------------------ values --------------------------------- *)
Emails == {"a@x.com", "b@x.com"}
Passwords == {"pw1", "pw2"}
VTokens == {"vt1", "vt2", "vt3"}
NoToken == "none"
NoSub == "nosub"
NoUser == 0
NoBirthday == -1
AvatarUrls == {"url1"}
NoAvatar == "none"

\* ACCESS_TOKEN_EXPIRE_MINUTES, in clock ticks of the model
AccessTokenTTL == 2
\* lookahead of the upcoming-birthday window, in days
BirthdayWindow == 7
DaysInYear == 365

\* calendar dates as day numbers of a 365-day calendar
Date(year, dayOfYear) == year * DaysInYear + dayOfYear - 1
Feb15 == Date(1990, 46)
Mar5 == Date(1985, 64)
Jan2 == Date(2000, 2)
Mar1 == Date(2024, 60)
Dec28 == Date(2024, 362)
Todays == {Mar1, Dec28}
Birthdays == {NoBirthday, Feb15, Mar5, Jan2}

\* search queries; names and queries are strings, kept as letter sequences
Queries == {<<>>, <<"a">>, <<"b">>, <<"a", "b">>}

Max(a, b) == IF a > b THEN a ELSE b
Min(a, b) == IF a < b THEN a ELSE b

VARIABLES
    users,       \* users table: sequence of rows, users[i].id = i
    contacts,    \* contacts table: sequence of rows in id order
    minted,      \* verification tokens generated so far
    consumed,    \* verification tokens a verify_email request succeeded with
    issued,      \* access tokens handed out by login
    now,         \* wall clock, seconds
    today,       \* calendar date of the server, as a day number
    reg,         \* in-flight create_user requests, by request slot
    pend,        \* update / delete requests between their check and write
    last         \* the request handled by the latest step and its response

vars ==
    <<users, contacts, minted, consumed, issued, now, today, reg, pend, last>>

(* --------------------------- password hashing -------------------------- *)
\* auth.get_password_hash: one-way hash of the password
get_password_hash(p) == <<"hash", p>>

\* auth.verify_password
verify_password(p, h) == h = get_password_hash(p)

(* ------------------------------ crud: users ---------------------------- *)
\* variant: the lookup filters on nothing it can match and finds no row
get_user_by_email_NoMatch(us, e) == NoUser

\* crud.get_user_by_email: id of the first row with that email, or NoUser
get_user_by_email(us, e) ==
    IF \E i \in 1..Len(us) : us[i].email = e
    THEN CHOOSE i \in 1..Len(us) :
            /\ us[i].email = e
            /\ \A j \in 1..Len(us) : us[j].email = e => i <= j
    ELSE NoUser

\* models.User: the columns of a new row; is_active takes its default
UserColumns(id, e, h) ==
    [id |-> id, email |-> e, hashed_password |-> h, is_active |-> TRUE]

\* the columns the verification and avatar handlers use, which models.User
\* does not declare: unverified, no token, no avatar
VerificationColumns ==
    [is_verified |-> FALSE, verification_token |-> NoToken,
     avatar_url |-> NoAvatar]

\* a new row of the users table
NewUser(id, e, h) == UserColumns(id, e, h) @@ VerificationColumns

\* the unique=True constraint on users.email, evaluated at commit
EmailUnique(us, e) == \A i \in 1..Len(us) : us[i].email # e

\* variant: the row is inserted already verified
crud_create_user_Verified(us, e, h) ==
    Append(us, [NewUser(Len(us) + 1, e, h) EXCEPT !.is_verified = TRUE])

\* crud.create_user: add + commit + refresh
crud_create_user(us, e, h) == Append(us, NewUser(Len(us) + 1, e, h))

\* crud.set_verification_token: store a freshly generated token on the user
set_verification_token(us, uid, t) ==
    [us EXCEPT ![uid].verification_token = t]

\* lookup of crud.verify_user: the user holding the token, or NoUser
find_by_verification_token(us, t) ==
    IF t # NoToken /\ \E i \in 1..Len(us) : us[i].verification_token = t
    THEN CHOOSE i \in 1..Len(us) : us[i].verification_token = t
    ELSE NoUser

\* crud.verify_user: mark the holder verified and clear the token, atomically
verify_user(us, uid) ==
    [us EXCEPT ![uid].is_verified = TRUE, ![uid].verification_token = NoToken]

(* ------------------------------ responses ------------------------------ *)
NoTok == [kind |-> "none", sub |-> NoSub, exp |-> 0]

Response(op, status, detail) ==
    [op |-> op, status |-> status, detail |-> detail,
     tok |-> NoTok, vtoken |-> NoToken, uid |-> NoUser, cid |-> 0,
     skip |-> 0, limit |-> 0, fields |-> {}, req |-> <<>>, body |-> <<>>]

IdleReq == [pc |-> "idle", email |-> "", uid |-> NoUser, status |-> 0,
            detail |-> ""]

IdlePending == [pc |-> "idle", op |-> "", tok |-> NoTok, uid |-> NoUser,
                cid |-> 0, data |-> <<>>, loaded |-> <<>>]

Init ==
    /\ users = <<>>
    /\ contacts = <<>>
    /\ minted = {}
    /\ consumed = {}
    /\ issued = {}
    /\ now = 0
    /\ today = Mar1
    /\ reg = [s \in 1..MaxReq |-> IdleReq]
    /\ pend = [s \in 1..MaxPending |-> IdlePending]
    /\ last = Response("start", 0, "")

(* --------------------------- POST /users/ ------------------------------ *)
\* main.create_user, lines 128-130: look the email up, 409 if registered
CreateUserCheck(s, e) ==
    /\ reg[s].pc \in {"idle", "done"}
    /\ LET found == get_user_by_email(users, e) IN
       IF found # NoUser
       THEN /\ reg' = [reg EXCEPT ![s] =
                        [pc |-> "done", email |-> e, uid |-> NoUser,
                         status |-> 409, detail |-> "Email already registered"]]
            /\ last' = Response("create_user", 409, "Email already registered")
       ELSE /\ reg' = [reg EXCEPT ![s] =
                        [pc |-> "checked", email |-> e, uid |-> NoUser,
                         status |-> 0, detail |-> ""]]
            /\ last' = Response("create_user", 0, "")
    /\ UNCHANGED <<users, contacts, minted, consumed, issued, now, today, pend>>

\* main.create_user, lines 131-133: hash the password, crud.create_user.
\* The commit fails with IntegrityError when the email got taken meanwhile;
\* nothing catches it, so the request ends as a server error.
CreateUserInsert(s, p) ==
    /\ reg[s].pc = "checked"
    /\ IF EmailUnique(users, reg[s].email)
       THEN /\ Len(users) < MaxUsers
            /\ users' = crud_create_user(users, reg[s].email,
                                         get_password_hash(p))
            /\ reg' = [reg EXCEPT ![s].pc = "created",
                                  ![s].uid = Len(users) + 1]
            /\ last' = Response("create_user", 0, "")
       ELSE /\ users' = users
            /\ reg' = [reg EXCEPT ![s].pc = "done", ![s].status = 500,
                                  ![s].detail = "IntegrityError"]
            /\ last' = Response("create_user", 500, "IntegrityError")
    /\ UNCHANGED <<contacts, minted, consumed, issued, now, today, pend>>

\* main.create_user, lines 134-136: crud.set_verification_token commits the
\* token; send_verification_email is then called with the name
\* background_tasks, which the handler never binds: NameError, server error.
CreateUserToken(s, t) ==
    /\ reg[s].pc = "created"
    /\ t \in VTokens \ minted
    /\ users' = set_verification_token(users, reg[s].uid, t)
    /\ minted' = minted \cup {t}
    /\ reg' = [reg EXCEPT ![s].pc = "done", ![s].status = 500,
                          ![s].detail = "NameError"]
    /\ last' = Response("create_user", 500, "NameError")
    /\ UNCHANGED <<contacts, consumed, issued, now, today, pend>>

(* --------------------------- GET /verify-email ------------------------- *)
\* variant: the handler forgets the "if not user" test and always reports
\* success
VerifyEmail_NoTest(t) ==
    /\ LET uid == find_by_verification_token(users, t) IN
       /\ users' = IF uid = NoUser THEN users ELSE verify_user(users, uid)
       /\ consumed' = IF uid = NoUser THEN consumed ELSE consumed \cup {t}
       /\ last' = [Response("verify_email", 200,
                            "Email verified successfully")
                   EXCEPT !.vtoken = t, !.uid = uid]
    /\ UNCHANGED <<contacts, minted, issued, now, today, reg, pend>>

\* main.verify_email: 400 unless crud.verify_user finds the token's user
VerifyEmail(t) ==
    /\ LET uid == find_by_verification_token(users, t) IN
       IF uid = NoUser
       THEN /\ users' = users
            /\ consumed' = consumed
            /\ last' = [Response("verify_email", 400,
                                 "Invalid verification token")
                        EXCEPT !.vtoken = t]
       ELSE /\ users' = verify_user(users, uid)
            /\ consumed' = consumed \cup {t}
            /\ last' = [Response("verify_email", 200,
                                 "Email verified successfully")
                        EXCEPT !.vtoken = t, !.uid = uid]
    /\ UNCHANGED <<contacts, minted, issued, now, today, reg, pend>>

(* ------------------------- registration system ------------------------- *)
NextReg ==
    \/ \E s \in 1..MaxReq, e \in Emails : CreateUserCheck(s, e)
    \/ \E s \in 1..MaxReq : CreateUserInsert(s, "pw1")
    \/ \E s \in 1..MaxReq, t \in VTokens : CreateUserToken(s, t)
    \/ \E t \in VTokens : VerifyEmail(t)

SpecReg == Init /\ [][NextReg]_vars


(* ---------------------------- access tokens ---------------------------- *)
\* auth.create_access_token: {sub, exp = now + expires_delta}, signed
create_access_token(sub, t, ttl) ==
    [kind |-> "signed", sub |-> sub, exp |-> t + ttl]

\* tokens as a request can carry them: none at all, garbage, signed with
\* another key, or signed with the server's key
MissingTok == [kind |-> "missing", sub |-> NoSub, exp |-> 0]
MalformedTok == [kind |-> "malformed", sub |-> NoSub, exp |-> 0]
BadSigTok == [kind |-> "badsig", sub |-> "a@x.com", exp |-> MaxTime + 1]
\* signed with the server's key, but not by a login of this run: a token of
\* an earlier run that has expired, a payload without sub, and a token whose
\* sub the store may not hold
ExpiredTok == [kind |-> "signed", sub |-> "a@x.com", exp |-> -1]
NoSubTok == [kind |-> "signed", sub |-> NoSub, exp |-> MaxTime + 1]
StrangerTok == [kind |-> "signed", sub |-> "b@x.com", exp |-> MaxTime + 1]

\* jose.jwt.decode: signature check, then exp; raises only when exp < now
jwt_decode(tok, t) == tok.kind = "signed" /\ ~(tok.exp < t)

\* variant: decode is asked not to verify exp
get_current_user_NoExpiry(us, tok, t) ==
    IF tok.kind # "signed" THEN NoUser
    ELSE IF tok.sub = NoSub THEN NoUser
    ELSE get_user_by_email(us, tok.sub)

\* main.get_current_user: the user the bearer token resolves to, or NoUser
\* when the request is rejected with 401
get_current_user(us, tok, t) ==
    IF tok.kind = "missing" THEN NoUser
    ELSE IF ~jwt_decode(tok, t) THEN NoUser
    ELSE IF tok.sub = NoSub THEN NoUser
    ELSE get_user_by_email(us, tok.sub)

\* detail of the 401: OAuth2PasswordBearer answers for a missing header,
\* credentials_exception for everything else
GateDetail(tok) ==
    IF tok.kind = "missing" THEN "Not authenticated"
    ELSE "Could not validate credentials"

\* the 401 response of a gated operation; the handler body never runs
Rejected(op, tok) ==
    /\ last' = [Response(op, 401, GateDetail(tok)) EXCEPT !.tok = tok]
    /\ UNCHANGED <<users, contacts>>

\* crud.authenticate_user: the user when email and password match
authenticate_user(us, e, p) ==
    LET uid == get_user_by_email(us, e) IN
    IF uid # NoUser /\ verify_password(p, us[uid].hashed_password)
    THEN uid ELSE NoUser

(* ----------------------------- crud: contacts -------------------------- *)
NoContact == [id |-> 0, name |-> <<>>, email |-> "", birthday |-> NoBirthday,
              owner_id |-> NoUser]

\* request bodies: the fields a client sent and their values
Payloads(names, emails, bdays) ==
    {[name |-> n, email |-> m, birthday |-> b,
      fields |-> {"name", "email", "birthday"}] :
        n \in names, m \in emails, b \in bdays}
    \cup {[name |-> n, email |-> m, birthday |-> NoBirthday,
           fields |-> {"name", "email"}] : n \in names, m \in emails}
    \cup {[name |-> n, email |-> "", birthday |-> NoBirthday,
           fields |-> {"name"}] : n \in names}

\* schemas.ContactBase: name and email are required
Valid(data) == {"name", "email"} \subseteq data.fields

\* ContactBase.dict(): every field of the schema, birthday None when not sent
dict(data) ==
    [name |-> data.name, email |-> data.email,
     birthday |-> IF "birthday" \in data.fields THEN data.birthday
                  ELSE NoBirthday]

\* the id the store gives a new row: one past the largest id in the table
NextId(cs) == IF Len(cs) = 0 THEN 1 ELSE cs[Len(cs)].id + 1

\* variant: the row is built without owner_id
crud_create_contact_NoOwner(cs, data, uid) ==
    Append(cs, [id |-> NextId(cs), name |-> dict(data).name,
                email |-> dict(data).email, birthday |-> dict(data).birthday,
                owner_id |-> NoUser])

\* crud.create_contact
crud_create_contact(cs, data, uid) ==
    Append(cs, [id |-> NextId(cs), name |-> dict(data).name,
                email |-> dict(data).email, birthday |-> dict(data).birthday,
                owner_id |-> uid])

\* crud.get_contact: the row with that id, or NoContact
get_contact(cs, cid) ==
    IF \E i \in 1..Len(cs) : cs[i].id = cid
    THEN cs[CHOOSE i \in 1..Len(cs) : cs[i].id = cid]
    ELSE NoContact

\* crud.update_contact: setattr for every key of contact.dict(), commit
crud_update_contact(cs, cid, data) ==
    [i \in 1..Len(cs) |->
        IF cs[i].id = cid
        THEN [cs[i] EXCEPT !.name = dict(data).name,
                           !.email = dict(data).email,
                           !.birthday = dict(data).birthday]
        ELSE cs[i]]

\* crud.delete_contact: delete the row, commit
crud_delete_contact(cs, cid) == SelectSeq(cs, LAMBDA c : c.id # cid)

\* crud.update_contact in a session that already holds the object `loaded`
\* for this id: the lookup hands back that object, setattr marks the
\* attributes whose new value differs from the loaded one, and commit writes
\* those columns to the row that has the id now
session_update_contact(cs, cid, data, loaded) ==
    [i \in 1..Len(cs) |->
        IF cs[i].id = cid
        THEN [cs[i] EXCEPT
                !.name = IF dict(data).name # loaded.name
                         THEN dict(data).name ELSE @,
                !.email = IF dict(data).email # loaded.email
                          THEN dict(data).email ELSE @,
                !.birthday = IF dict(data).birthday # loaded.birthday
                             THEN dict(data).birthday ELSE @]
        ELSE cs[i]]

\* variant: the owner filter is missing
get_contacts_AllOwners(cs, uid, skip, limit) ==
    SubSeq(cs, skip + 1, Min(skip + limit, Len(cs)))

\* crud.get_contacts: filter by owner, offset, limit; rows in id order
get_contacts(cs, uid, skip, limit) ==
    LET mine == SelectSeq(cs, LAMBDA c : c.owner_id = uid) IN
    SubSeq(mine, skip + 1, Min(skip + limit, Len(mine)))

\* str.contains of the name column: q occurs in n
Contains(n, q) ==
    \E i \in 1..(Len(n) + 1) :
        i + Len(q) - 1 <= Len(n) /\ SubSeq(n, i, i + Len(q) - 1) = q

\* crud.search_contacts: the owner's rows whose name contains the query
search_contacts(cs, q, uid) ==
    SelectSeq(cs, LAMBDA c : c.owner_id = uid /\ Contains(c.name, q))

\* crud.get_upcoming_birthdays: all rows of the owner, ORDER BY birthday.
\* Rows with equal birthdays come in any order; NULL sorts first.
get_upcoming_birthdays(cs, uid) ==
    LET mine == SelectSeq(cs, LAMBDA c : c.owner_id = uid)
        n == Len(mine)
    IN {[i \in 1..n |-> mine[p[i]]] :
          p \in {q \in [1..n -> 1..n] :
                   /\ \A i, j \in 1..n : q[i] = q[j] => i = j
                   /\ \A i, j \in 1..n :
                        i < j => mine[q[i]].birthday <= mine[q[j]].birthday}}

\* variant: the handlers test only that the row exists
NotVisible_AnyOwner(c, uid) == c = NoContact

\* "db_contact is None or db_contact.owner_id != current_user.id"
NotVisible(c, uid) == c = NoContact \/ c.owner_id # uid

NotFound(op, tok, uid, cid) ==
    [Response(op, 404, "Contact not found")
     EXCEPT !.tok = tok, !.uid = uid, !.cid = cid]

(* ------------------------------ POST /token ---------------------------- *)
\* variant: the handler looks the user up by email and never tests the
\* password
Login_AnyPassword(e, p) ==
    /\ LET uid == get_user_by_email(users, e)
           form == [username |-> e, password |-> p]
       IN IF uid = NoUser
          THEN /\ issued' = issued
               /\ last' = [Response("login", 401,
                                    "Incorrect email or password")
                           EXCEPT !.req = form]
          ELSE LET tok == create_access_token(users[uid].email, now,
                                              AccessTokenTTL)
               IN /\ Cardinality(issued \cup {tok}) <= MaxIssued
                  /\ issued' = issued \cup {tok}
                  /\ last' = [Response("login", 200, "bearer")
                              EXCEPT !.tok = tok, !.uid = uid, !.req = form]
    /\ UNCHANGED <<users, contacts, minted, consumed, now, today, reg, pend>>

\* main.login_for_access_token
Login(e, p) ==
    /\ LET uid == authenticate_user(users, e, p)
           form == [username |-> e, password |-> p]
       IN IF uid = NoUser
          THEN /\ issued' = issued
               /\ last' = [Response("login", 401,
                                    "Incorrect email or password")
                           EXCEPT !.req = form]
          ELSE LET tok == create_access_token(users[uid].email, now,
                                              AccessTokenTTL)
               IN /\ Cardinality(issued \cup {tok}) <= MaxIssued
                  /\ issued' = issued \cup {tok}
                  /\ last' = [Response("login", 200, "bearer")
                              EXCEPT !.tok = tok, !.uid = uid, !.req = form]
    /\ UNCHANGED <<users, contacts, minted, consumed, now, today, reg, pend>>

\* the calendar date moves on
DateChange(d) ==
    /\ today' = d
    /\ last' = Response("date", 0, "")
    /\ UNCHANGED <<users, contacts, minted, consumed, issued, now, reg, pend>>

\* time passes
Tick ==
    /\ now < MaxTime
    /\ now' = now + 1
    /\ last' = Response("tick", 0, "")
    /\ UNCHANGED <<users, contacts, minted, consumed, issued, today, reg, pend>>

(* ------------------------------ contacts ------------------------------- *)
\* main.create_contact
CreateContact(tok, data) ==
    /\ LET uid == get_current_user(users, tok, now) IN
       IF uid = NoUser THEN Rejected("create_contact", tok)
       ELSE IF ~Valid(data)
       THEN /\ last' = [Response("create_contact", 422, "field required")
                        EXCEPT !.tok = tok, !.uid = uid,
                               !.fields = data.fields, !.req = data]
            /\ UNCHANGED <<users, contacts>>
       ELSE /\ NextId(contacts) <= MaxContactId
            /\ contacts' = crud_create_contact(contacts, data, uid)
            /\ last' = [Response("create_contact", 200, "")
                        EXCEPT !.tok = tok, !.uid = uid,
                               !.cid = NextId(contacts),
                               !.fields = data.fields, !.req = data,
                               !.body = <<contacts'[Len(contacts')]>>]
            /\ users' = users
    /\ UNCHANGED <<minted, consumed, issued, now, today, reg, pend>>

\* main.read_contacts
ReadContacts(tok, skip, limit) ==
    /\ LET uid == get_current_user(users, tok, now) IN
       IF uid = NoUser THEN Rejected("read_contacts", tok)
       ELSE /\ last' = [Response("read_contacts", 200, "")
                        EXCEPT !.tok = tok, !.uid = uid, !.skip = skip,
                               !.limit = limit,
                               !.body = get_contacts(contacts, uid, skip,
                                                     limit)]
            /\ UNCHANGED <<users, contacts>>
    /\ UNCHANGED <<minted, consumed, issued, now, today, reg, pend>>

\* main.read_contact
ReadContact(tok, cid) ==
    /\ LET uid == get_current_user(users, tok, now)
           db_contact == get_contact(contacts, cid)
       IN IF uid = NoUser THEN Rejected("read_contact", tok)
          ELSE /\ last' = IF NotVisible(db_contact, uid)
                          THEN NotFound("read_contact", tok, uid, cid)
                          ELSE [Response("read_contact", 200, "")
                                EXCEPT !.tok = tok, !.uid = uid, !.cid = cid,
                                       !.body = <<db_contact>>]
               /\ UNCHANGED <<users, contacts>>
    /\ UNCHANGED <<minted, consumed, issued, now, today, reg, pend>>

\* main.update_contact
UpdateContact(tok, cid, data) ==
    /\ LET uid == get_current_user(users, tok, now)
           db_contact == get_contact(contacts, cid)
       IN IF uid = NoUser THEN Rejected("update_contact", tok)
          ELSE IF ~Valid(data)
          THEN /\ last' = [Response("update_contact", 422, "field required")
                           EXCEPT !.tok = tok, !.uid = uid, !.cid = cid,
                                  !.fields = data.fields]
               /\ UNCHANGED <<users, contacts>>
          ELSE IF NotVisible(db_contact, uid)
          THEN /\ last' = NotFound("update_contact", tok, uid, cid)
               /\ UNCHANGED <<users, contacts>>
          ELSE /\ contacts' = crud_update_contact(contacts, cid, data)
               /\ last' = [Response("update_contact", 200, "")
                           EXCEPT !.tok = tok, !.uid = uid, !.cid = cid,
                                  !.fields = data.fields,
                                  !.body = <<get_contact(contacts', cid)>>]
               /\ users' = users
    /\ UNCHANGED <<minted, consumed, issued, now, today, reg, pend>>

\* main.delete_contact
DeleteContact(tok, cid) ==
    /\ LET uid == get_current_user(users, tok, now)
           db_contact == get_contact(contacts, cid)
       IN IF uid = NoUser THEN Rejected("delete_contact", tok)
          ELSE IF NotVisible(db_contact, uid)
          THEN /\ last' = NotFound("delete_contact", tok, uid, cid)
               /\ UNCHANGED <<users, contacts>>
          ELSE /\ contacts' = crud_delete_contact(contacts, cid)
               /\ last' = [Response("delete_contact", 200, "")
                           EXCEPT !.tok = tok, !.uid = uid, !.cid = cid,
                                  !.body = <<db_contact>>]
               /\ users' = users
    /\ UNCHANGED <<minted, consumed, issued, now, today, reg, pend>>

\* a handler that returns None where the response model is a Contact
NoneReturned(op, tok, uid, cid) ==
    [Response(op, 500, "Internal Server Error")
     EXCEPT !.tok = tok, !.uid = uid, !.cid = cid]

\* main.update_contact up to its ownership test, run while other requests
\* are in flight: the request that passes holds the row it loaded
UpdateContactCheck(s, tok, cid, data) ==
    /\ pend[s].pc = "idle"
    /\ LET uid == get_current_user(users, tok, now)
           db_contact == get_contact(contacts, cid)
       IN IF uid = NoUser
          THEN Rejected("update_contact", tok) /\ pend' = pend
          ELSE IF ~Valid(data)
          THEN /\ last' = [Response("update_contact", 422, "field required")
                           EXCEPT !.tok = tok, !.uid = uid, !.cid = cid,
                                  !.fields = data.fields]
               /\ UNCHANGED <<users, contacts, pend>>
          ELSE IF NotVisible(db_contact, uid)
          THEN /\ last' = NotFound("update_contact", tok, uid, cid)
               /\ UNCHANGED <<users, contacts, pend>>
          ELSE /\ pend' = [pend EXCEPT ![s] =
                              [pc |-> "checked", op |-> "update_contact",
                               tok |-> tok, uid |-> uid, cid |-> cid,
                               data |-> data, loaded |-> db_contact]]
               /\ last' = [Response("update_contact", 0, "")
                           EXCEPT !.tok = tok, !.uid = uid, !.cid = cid]
               /\ UNCHANGED <<users, contacts>>
    /\ UNCHANGED <<minted, consumed, issued, now, today, reg>>

\* the rest of main.update_contact: crud.update_contact looks the id up
\* again and writes
UpdateContactWrite(s) ==
    /\ pend[s].pc = "checked" /\ pend[s].op = "update_contact"
    /\ LET r == pend[s]
           db_contact == get_contact(contacts, r.cid)
       IN IF db_contact = NoContact
          THEN /\ last' = NoneReturned("update_contact", r.tok, r.uid, r.cid)
               /\ contacts' = contacts
          ELSE /\ contacts' = session_update_contact(contacts, r.cid, r.data,
                                                     r.loaded)
               /\ last' = [Response("update_contact", 200, "")
                           EXCEPT !.tok = r.tok, !.uid = r.uid,
                                  !.cid = r.cid, !.fields = r.data.fields,
                                  !.body = <<get_contact(contacts', r.cid)>>]
    /\ pend' = [pend EXCEPT ![s] = IdlePending]
    /\ UNCHANGED <<users, minted, consumed, issued, now, today, reg>>

\* main.delete_contact up to its ownership test
DeleteContactCheck(s, tok, cid) ==
    /\ pend[s].pc = "idle"
    /\ LET uid == get_current_user(users, tok, now)
           db_contact == get_contact(contacts, cid)
       IN IF uid = NoUser
          THEN Rejected("delete_contact", tok) /\ pend' = pend
          ELSE IF NotVisible(db_contact, uid)
          THEN /\ last' = NotFound("delete_contact", tok, uid, cid)
               /\ UNCHANGED <<users, contacts, pend>>
          ELSE /\ pend' = [pend EXCEPT ![s] =
                              [pc |-> "checked", op |-> "delete_contact",
                               tok |-> tok, uid |-> uid, cid |-> cid,
                               data |-> <<>>, loaded |-> db_contact]]
               /\ last' = [Response("delete_contact", 0, "")
                           EXCEPT !.tok = tok, !.uid = uid, !.cid = cid]
               /\ UNCHANGED <<users, contacts>>
    /\ UNCHANGED <<minted, consumed, issued, now, today, reg>>

\* the rest of main.delete_contact: crud.delete_contact looks the id up
\* again and deletes the row that has it; the object returned is the one
\* the session loaded first
DeleteContactWrite(s) ==
    /\ pend[s].pc = "checked" /\ pend[s].op = "delete_contact"
    /\ LET r == pend[s]
           db_contact == get_contact(contacts, r.cid)
       IN IF db_contact = NoContact
          THEN /\ last' = NoneReturned("delete_contact", r.tok, r.uid, r.cid)
               /\ contacts' = contacts
          ELSE /\ contacts' = crud_delete_contact(contacts, r.cid)
               /\ last' = [Response("delete_contact", 200, "")
                           EXCEPT !.tok = r.tok, !.uid = r.uid,
                                  !.cid = r.cid, !.body = <<r.loaded>>]
    /\ pend' = [pend EXCEPT ![s] = IdlePending]
    /\ UNCHANGED <<users, minted, consumed, issued, now, today, reg>>

\* main.search_contacts
SearchContacts(tok, q) ==
    /\ LET uid == get_current_user(users, tok, now) IN
       IF uid = NoUser THEN Rejected("search_contacts", tok)
       ELSE /\ last' = [Response("search_contacts", 200, "")
                        EXCEPT !.tok = tok, !.uid = uid,
                               !.body = search_contacts(contacts, q, uid)]
            /\ UNCHANGED <<users, contacts>>
    /\ UNCHANGED <<minted, consumed, issued, now, today, reg, pend>>

\* main.upcoming_birthdays
UpcomingBirthdays(tok) ==
    /\ LET uid == get_current_user(users, tok, now) IN
       IF uid = NoUser THEN Rejected("upcoming_birthdays", tok)
       ELSE /\ \E rows \in get_upcoming_birthdays(contacts, uid) :
                 last' = [Response("upcoming_birthdays", 200, "")
                          EXCEPT !.tok = tok, !.uid = uid, !.body = rows]
            /\ UNCHANGED <<users, contacts>>
    /\ UNCHANGED <<minted, consumed, issued, now, today, reg, pend>>

\* main.upload_user_avatar
UploadUserAvatar(tok, url) ==
    /\ LET uid == get_current_user(users, tok, now) IN
       IF uid = NoUser THEN Rejected("upload_user_avatar", tok)
       ELSE /\ users' = [users EXCEPT ![uid].avatar_url = url]
            /\ last' = [Response("upload_user_avatar", 200, url)
                        EXCEPT !.tok = tok, !.uid = uid]
            /\ contacts' = contacts
    /\ UNCHANGED <<minted, consumed, issued, now, today, reg, pend>>

(* --------------------- systems of the other parts ---------------------- *)
\* the token the generator returns next
FreshToken == CHOOSE t \in VTokens \ minted : TRUE

\* registration by one request at a time, as the other systems use it
Register ==
    \/ \E e \in Emails : CreateUserCheck(1, e)
    \/ CreateUserInsert(1, "pw1")
    \/ minted # VTokens /\ CreateUserToken(1, FreshToken)

\* token expiry: logins at different times, the clock, one gated operation
NextExpiry ==
    \/ Register
    \/ \E e \in Emails, p \in Passwords : Login(e, p)
    \/ Tick
    \/ \E tok \in issued : ReadContacts(tok, 0, MaxPage)

SpecExpiry == Init /\ [][NextExpiry]_vars

\* the gate: every token a client may present, on every gated operation
AnyToks ==
    issued \cup {MissingTok, MalformedTok, BadSigTok, ExpiredTok, NoSubTok,
                 StrangerTok}

GateData == {d \in Payloads({<<"a">>}, {"m1"}, {}) : Valid(d)}

NextGate ==
    \/ Register
    \/ \E e \in Emails : Login(e, "pw1")
    \/ \E tok \in AnyToks, data \in GateData : CreateContact(tok, data)
    \/ \E tok \in AnyToks : ReadContacts(tok, 0, MaxPage)
    \/ \E tok \in AnyToks : ReadContact(tok, 1)
    \/ \E tok \in AnyToks, data \in GateData : UpdateContact(tok, 1, data)
    \/ \E tok \in AnyToks : DeleteContact(tok, 1)
    \/ \E tok \in AnyToks : SearchContacts(tok, <<"a">>)
    \/ \E tok \in AnyToks : UpcomingBirthdays(tok)
    \/ \E tok \in AnyToks, url \in AvatarUrls : UploadUserAvatar(tok, url)

SpecGate == Init /\ [][NextGate]_vars

\* contacts: create, list, fetch, update, delete by logged-in users
ContactData ==
    Payloads({<<"a">>}, {"m1"}, {Feb15})
    \cup {d \in Payloads({<<"b", "a">>}, {"m2"}, {}) : Valid(d)}

NextContacts ==
    \/ Register
    \/ \E e \in Emails : Login(e, "pw1")
    \/ \E tok \in issued, data \in ContactData : CreateContact(tok, data)
    \/ \E tok \in issued, skip \in 0..MaxPage, limit \in 1..MaxPage :
          ReadContacts(tok, skip, limit)
    \/ \E tok \in issued, cid \in 1..MaxContactId : ReadContact(tok, cid)
    \/ \E tok \in issued, cid \in 1..MaxContactId, data \in ContactData :
          UpdateContact(tok, cid, data)
    \/ \E tok \in issued, cid \in 1..MaxContactId : DeleteContact(tok, cid)

SpecContacts == Init /\ [][NextContacts]_vars

\* login: users registered with any password, logins with any credentials,
\* and one gated operation with the tokens handed out
NextLogin ==
    \/ \E e \in Emails : CreateUserCheck(1, e)
    \/ \E p \in Passwords : CreateUserInsert(1, p)
    \/ minted # VTokens /\ CreateUserToken(1, FreshToken)
    \/ \E e \in Emails, p \in Passwords : Login(e, p)
    \/ \E tok \in issued : ReadContacts(tok, 0, MaxPage)

SpecLogin == Init /\ [][NextLogin]_vars

\* interleaving: updates and deletes that other requests overtake between
\* the ownership test and the write
RaceData ==
    {d \in Payloads({<<"a">>}, {"m1"}, {}) \cup
            Payloads({<<"b", "a">>}, {"m2"}, {}) : Valid(d)}

NextRace ==
    \/ Register
    \/ \E e \in Emails : Login(e, "pw1")
    \/ \E tok \in issued, data \in RaceData : CreateContact(tok, data)
    \/ \E tok \in issued, cid \in 1..MaxContactId : DeleteContact(tok, cid)
    \/ \E s \in 1..MaxPending, tok \in issued, cid \in 1..MaxContactId,
          data \in RaceData : UpdateContactCheck(s, tok, cid, data)
    \/ \E s \in 1..MaxPending : UpdateContactWrite(s)
    \/ \E s \in 1..MaxPending, tok \in issued, cid \in 1..MaxContactId :
          DeleteContactCheck(s, tok, cid)
    \/ \E s \in 1..MaxPending : DeleteContactWrite(s)

SpecRace == Init /\ [][NextRace]_vars

\* birthdays: contacts with birthdays, the calendar, the two listings
BirthdayData == Payloads({<<"a">>}, {"m1"}, Birthdays)

NextBirthdays ==
    \/ Register
    \/ \E e \in Emails : Login(e, "pw1")
    \/ \E d \in Todays : DateChange(d)
    \/ \E tok \in issued, data \in BirthdayData : CreateContact(tok, data)
    \/ \E tok \in issued, cid \in 1..MaxContactId : DeleteContact(tok, cid)
    \/ \E tok \in issued, q \in Queries : SearchContacts(tok, q)
    \/ \E tok \in issued : UpcomingBirthdays(tok)

SpecBirthdays == Init /\ [][NextBirthdays]_vars

(* ======================= registration properties ======================= *)
\* the step is the first step (the email lookup) of request s
IsCheckStep(s) == reg[s].pc \in {"idle", "done"} /\ reg'[s] # reg[s]

HasEmail(us, e) == \E i \in 1..Len(us) : us[i].email = e

\* C2: once the store holds a user with email e, every later create_user
\* request for e ends with 409 DuplicateEmail and leaves the users table
\* unchanged, and no two users ever share an email.
C2_DuplicateRejected ==
    [][ /\ \A s \in DOMAIN reg :
            (IsCheckStep(s) /\ HasEmail(users, reg'[s].email))
              => (reg'[s].status = 409 /\ reg'[s].pc = "done"
                  /\ users' = users)
        /\ \A i, j \in 1..Len(users') :
            users'[i].email = users'[j].email => i = j ]_vars

\* a request for a registered email has been answered 409
C2_Witness ==
    \E s \in DOMAIN reg :
        /\ reg[s].pc = "done" /\ reg[s].status = 409
        /\ HasEmail(users, reg[s].email)

\* C3: of two finished create_user requests for the same email of which one
\* created the user, the other created nothing and ended with 409.
C3_LoserGetsDuplicateEmail ==
    \A s, t \in DOMAIN reg :
        (/\ s # t
         /\ reg[s].pc = "done" /\ reg[t].pc = "done"
         /\ reg[s].email = reg[t].email
         /\ reg[s].uid # NoUser)
          => (reg[t].uid = NoUser /\ reg[t].status = 409)

C6_ExpiryBoundary ==
    [][ (last'.op = "read_contacts" /\ last'.tok \in issued)
          => ((last'.status = 200) <=> (now < last'.tok.exp)) ]_vars

GatedOps ==
    {"create_contact", "read_contacts", "read_contact", "update_contact",
     "delete_contact", "search_contacts", "upcoming_birthdays",
     "upload_user_avatar"}

\* the token carries no usable identity: absent, undecodable (garbage, wrong
\* signature, expired; the expiry instant itself is the subject of C6), or
\* without sub
Undecodable(tok) ==
    tok.kind \in {"malformed", "badsig"}
    \/ (tok.kind = "signed" /\ (tok.exp < now \/ tok.sub = NoSub))

\* C7: a gated request ends 401 exactly when its token is missing, does not
\* decode, or names no stored user; a rejected request leaves users and
\* contacts untouched; decode failure and unknown user give the same 401;
\* an accepted request runs as the stored user whose email is the token's sub.
C7_AccessGate ==
    [][ last'.op \in GatedOps =>
          LET tok == last'.tok IN
          /\ (last'.status = 401)
               <=> (tok.kind = "missing" \/ Undecodable(tok)
                    \/ ~HasEmail(users, tok.sub))
          /\ last'.status = 401
               => /\ users' = users /\ contacts' = contacts
                  /\ last'.uid = NoUser /\ last'.body = <<>>
          /\ (last'.status = 401 /\ tok.kind # "missing")
               => last'.detail = "Could not validate credentials"
          /\ last'.status # 401
               => /\ last'.uid \in 1..Len(users)
                  /\ users[last'.uid].email = tok.sub ]_vars

\* a delete with a well-signed token of an unregistered email was refused
\* while the store held users and contacts
C7_Witness ==
    /\ last.op = "delete_contact" /\ last.status = 401
    /\ last.tok.kind = "signed" /\ last.tok.sub # NoSub
    /\ last.tok.exp >= now
    /\ ~HasEmail(users, last.tok.sub)
    /\ Len(users) > 0 /\ Len(contacts) > 0

(* ============================== contacts =============================== *)
Rows(cs) == {cs[i] : i \in 1..Len(cs)}

ByIdOps == {"read_contact", "update_contact", "delete_contact"}

\* C1: a read, update or delete by an authenticated user of a contact that
\* another user owns ends with 404 "Contact not found" and no body, as for an
\* id that does not exist, and leaves the contacts table as it was.
C1_OwnershipIsolation ==
    [][ (/\ last'.op \in ByIdOps
         /\ last'.uid # NoUser /\ last'.status # 422
         /\ \E c \in Rows(contacts) :
               c.id = last'.cid /\ c.owner_id # last'.uid)
          => /\ last' = NotFound(last'.op, last'.tok, last'.uid, last'.cid)
             /\ last'.status = 404
             /\ contacts' = contacts ]_vars

\* a user asked to delete another user's contact and got 404
C1_Witness ==
    /\ last.op = "delete_contact" /\ last.status = 404
    /\ \E c \in Rows(contacts) : c.id = last.cid /\ c.owner_id # last.uid

\* C8: a successful update overwrites only the fields the payload carries;
\* a field absent from the payload keeps its prior value.
C8_PartialUpdate ==
    [][ (last'.op = "update_contact" /\ last'.status = 200)
          => LET old == get_contact(contacts, last'.cid)
                 new == get_contact(contacts', last'.cid)
             IN /\ "name" \notin last'.fields => new.name = old.name
                /\ "email" \notin last'.fields => new.email = old.email
                /\ "birthday" \notin last'.fields
                     => new.birthday = old.birthday ]_vars

\* days from date t to the next anniversary of birthday b on or after t
DaysUntil(b, t) ==
    ((b % DaysInYear) - (t % DaysInYear) + DaysInYear) % DaysInYear

\* C9: upcoming_birthdays returns exactly the owner's contacts whose next
\* anniversary is within the window, once each, ascending by days-until.
C9_UpcomingWindow ==
    (last.op = "upcoming_birthdays" /\ last.status = 200)
      => LET b == last.body IN
         /\ Rows(b) = {c \in Rows(contacts) :
                         /\ c.owner_id = last.uid
                         /\ c.birthday # NoBirthday
                         /\ DaysUntil(c.birthday, today) <= BirthdayWindow}
         /\ \A i, j \in 1..Len(b) :
              i < j => /\ b[i] # b[j]
                       /\ DaysUntil(b[i].birthday, today)
                            <= DaysUntil(b[j].birthday, today)

C11_SingleOwner ==
    [][ /\ (last'.op = "create_contact" /\ last'.status = 200)
             => /\ Len(last'.body) = 1
                /\ LET c == last'.body[1]
                       sent == last'.req
                   IN /\ c \in Rows(contacts') \ Rows(contacts)
                      /\ c.owner_id = last'.uid /\ c.id = last'.cid
                      /\ c.name = sent.name /\ c.email = sent.email
                      /\ "birthday" \in sent.fields
                           => c.birthday = sent.birthday
        /\ \A i, j \in 1..Len(contacts') :
             contacts'[i].id = contacts'[j].id => i = j
        /\ \A c \in Rows(contacts') : c.owner_id \in 1..Len(users')
        /\ \A c \in Rows(contacts), d \in Rows(contacts') :
             c.id = d.id => d.owner_id = c.owner_id ]_vars

\* a user updated an own contact, which kept its owner, while the table also
\* held a contact of another user
C11_Witness ==
    /\ last.op = "update_contact" /\ last.status = 200
    /\ last.body[1].owner_id = last.uid
    /\ last.body[1] \in Rows(contacts)
    /\ \E c \in Rows(contacts) : c.owner_id # last.uid

(* =============================== login ================================= *)
\* C12: a login answers 200 exactly when the email is registered and the
\* password is the one stored for it at registration; then it hands out a
\* bearer token whose sub is that email and which the gate resolves to that
\* user; otherwise it answers 401 and hands out no token.
C12_Login ==
    [][ last'.op = "login" =>
          LET form == last'.req
              match == \E i \in 1..Len(users) :
                          /\ users[i].email = form.username
                          /\ users[i].hashed_password
                               = get_password_hash(form.password)
          IN /\ last'.status \in {200, 401}
             /\ (last'.status = 200) <=> match
             /\ last'.status = 200
                  => /\ last'.detail = "bearer"
                     /\ last'.tok.kind = "signed"
                     /\ last'.tok.sub = form.username
                     /\ last'.tok \in issued'
                     /\ last'.uid \in 1..Len(users)
                     /\ users[last'.uid].email = form.username
                     /\ get_current_user(users', last'.tok, now') = last'.uid
             /\ last'.status = 401
                  => /\ issued' = issued
                     /\ last'.tok = NoTok
                     /\ last'.detail = "Incorrect email or password"
             /\ users' = users ]_vars

\* a registered user who already holds a token tried a wrong password and
\* was refused
C12_Witness ==
    /\ last.op = "login" /\ last.status = 401
    /\ HasEmail(users, last.req.username)
    /\ \E tok \in issued : tok.sub = last.req.username

(* ================== registration and e-mail delivery =================== *)
\* C13: a create_user request that inserted its user answers 200, and the
\* user it inserted stays in the store.
C13_RegistrationCompletes ==
    \A s \in DOMAIN reg :
        (reg[s].pc = "done" /\ reg[s].uid # NoUser)
          => /\ reg[s].status = 200
             /\ reg[s].uid \in 1..Len(users)
             /\ users[reg[s].uid].email = reg[s].email

\* C14: under every interleaving of requests, a step of update_contact or
\* delete_contact made for user A changes or removes only rows whose owner_id
\* is A's id at the moment of the write, and a 200 answer carries a contact.
C14_WriteOnlyOwnRows ==
    [][ (last'.op \in {"update_contact", "delete_contact"}
         /\ last'.uid # NoUser)
          => /\ \A c \in Rows(contacts) :
                  c \notin Rows(contacts') => c.owner_id = last'.uid
             /\ last'.status = 200 => last'.body # <<>> ]_vars

====
